---- MODULE Spec2Model ----
(***************************************************************************)
(* Model of the nonce-submission pipeline of poc_mining:                   *)
(*   - SubmissionParameters and its Ord implementation (com/client.rs),    *)
(*   - RequestHandler::submit_nonce, the producers' enqueue (requests.rs), *)
(*   - RequestHandler::handle_submissions, the dispatcher: the stream      *)
(*     PrioRetry::new(rx, 3s).and_then(submit_nonce.then(log)).for_each,   *)
(*   - Client::submit_nonce, the collaborator call (com/client.rs),        *)
(*   - the single-slot retry queue PrioRetry (crate::future::prio_retry).  *)
(*     Its source is not part of the tree; it is modelled from section 4.2 *)
(*     of the specification (held, nextEligibleTime, offer, takeReady).    *)
(*     The queue's reportFailure and reportTerminal have no caller in      *)
(*     handle_submissions (its then closure logs and answers Ok(())), so   *)
(*     no action of the model performs them.                               *)
(* Producers reach the queue through the channel only: PrioRetry receives  *)
(* from rx when the stream is polled, and and_then polls it only between   *)
(* two submissions (Client::submit_nonce blocks until the chain answers).  *)
(***************************************************************************)
EXTENDS Integers, Sequences, FiniteSets, TLC

(* ------------------------------ bounds --------------------------------- *)
MaxBlock == 2

MaxDeadline == 2

NumGenSigs == 2

MaxOffers == 2

MaxTime == 1
MaxHeight == 4

(* -------------------------- program constants -------------------------- *)
\* Duration::from_secs(3) handed to PrioRetry::new
FixedDelay == 3

\* the window of the on-chain check: (block - 1) / 3
Window == 3
MsPerBlock == 3000

None == [none |-> TRUE]

\* an absent time (Option::None of a timestamp)
NoTime == 0 - 1

(* --------------------------- data model -------------------------------- *)
Blocks == 1..MaxBlock

Deadlines == 1..MaxDeadline

GenSigs == 1..NumGenSigs

AccountIds == {1337}

Nonces == {12}

Heights == {1}

UnadjustedDeadlines == {7123}

\* struct SubmissionParameters
SubmissionParameters ==
    [account_id : AccountIds, nonce : Nonces, height : Heights, block : Blocks,
     deadline_unadjusted : UnadjustedDeadlines, deadline : Deadlines,
     gen_sig : GenSigs]

\* the candidates the producers find: at the newest height two forks and two
\* deadlines, and one late candidate of the height before (every branch of
\* cmp is taken between two of them)
Produced ==
    {sp \in SubmissionParameters :
        /\ sp.block >= MaxBlock - 1
        /\ sp.deadline >= MaxDeadline - 1
        /\ sp.gen_sig >= NumGenSigs - 1
        /\ (sp.block = MaxBlock \/ (sp.gen_sig = NumGenSigs /\ sp.deadline = MaxDeadline))}

\* one call of RequestHandler::submit_nonce: the value sent, and the serial
\* number of the call (two calls with equal values are two candidates)
Instances == [sp : SubmissionParameters, id : 1..(MaxOffers + 1)]

\* (variants of cmp) a tie on the deadline loses; the block is not looked at;
\* a better deadline on another fork wins
cmp_tie_loses(self, other) ==
    IF self.block < other.block THEN "Less"
    ELSE IF self.block > other.block THEN "Greater"
    ELSE IF self.gen_sig = other.gen_sig
         THEN IF self.deadline < other.deadline THEN "Greater" ELSE "Less"
         ELSE "Less"

cmp_block_ignored(self, other) ==
    IF self.gen_sig = other.gen_sig
    THEN IF self.deadline <= other.deadline THEN "Greater" ELSE "Less"
    ELSE "Less"

cmp_fork_preempts(self, other) ==
    IF self.block < other.block THEN "Less"
    ELSE IF self.block > other.block THEN "Greater"
    ELSE IF self.gen_sig = other.gen_sig
         THEN IF self.deadline <= other.deadline THEN "Greater" ELSE "Less"
         ELSE IF self.deadline <= other.deadline THEN "Greater" ELSE "Less"

\* (variant) the conventional three-way comparison on the deadline
cmp_three_way(self, other) ==
    IF self.block < other.block THEN "Less"
    ELSE IF self.block > other.block THEN "Greater"
    ELSE IF self.gen_sig = other.gen_sig
         THEN IF self.deadline < other.deadline THEN "Greater"
              ELSE IF self.deadline > other.deadline THEN "Less" ELSE "Equal"
         ELSE "Less"

\* impl Ord for SubmissionParameters: cmp(self, other)
cmp(self, other) ==
    IF self.block < other.block THEN "Less"
    ELSE IF self.block > other.block THEN "Greater"
    ELSE IF self.gen_sig = other.gen_sig
         THEN IF self.deadline <= other.deadline THEN "Greater" ELSE "Less"
         ELSE "Less"

(* ------------------ the collaborator: Client::submit_nonce -------------- *)
\* the chain's last mining info as get_last_mining_info returns it
InfoBlocks == {1, 4}

MiningInfos == [best_dl : Deadlines, block : InfoBlocks]

\* what the extrinsic can come to: the VerifyDeadline event with true or
\* false, an undecodable event, no event, or an error of xt/submit
XtResults == {"verify_true", "verify_false", "event_err", "no_event", "xt_err"}

\* the check of the on-chain best deadline that precedes the extrinsic
check_dl_result(submission_data, info) ==
    IF info # None
       /\ info.best_dl <= submission_data.deadline
       /\ (info.block - 1) \div Window = (submission_data.height - 1) \div Window
    THEN "Err" ELSE "Ok"

\* Client::submit_nonce: "accepted" is Ok(verify_result: true), "rejected" is
\* Ok(verify_result: false), "error" is Err(FetchError)
client_submit_nonce(submission_data, info, xt) ==
    IF check_dl_result(submission_data, info) = "Err" THEN "rejected"
    ELSE IF xt = "verify_true" THEN "accepted"
    ELSE IF xt = "verify_false" THEN "rejected"
    ELSE "error"

\* every response submit_nonce can come to for a candidate, over what the
\* chain holds and what the extrinsic comes to
Responses(submission_data) ==
    {client_submit_nonce(submission_data, info, xt) :
        info \in MiningInfos \cup {None}, xt \in XtResults}

\* what submit_nonce reads: a height and a deadline of any size, and the last
\* mining info of the chain, if there is one, with a block of any size
SubmitHeights == 0..MaxHeight

SubmitInputs == [height : SubmitHeights, deadline : Deadlines]

LastMiningInfos == [best_dl : Deadlines, block : SubmitHeights]

\* u64::MAX, which is 3 * 6148914691236517205: here a multiple of Window above
\* every value that is drawn, so that its window is no other value's window
U64Max == Window * (MaxHeight + 1)

\* x - 1 on u64: with overflow checks (debug builds) 0 - 1 panics, without
\* them (release builds) it wraps to u64::MAX
sub_one_panics(x, overflow_checks) == x = 0 /\ overflow_checks

sub_one(x) == IF x > 0 THEN x - 1 ELSE U64Max

\* the condition of client.rs:165, evaluated left to right: "panic", or the
\* truth value as "true" or "false"
better_on_chain(submission_data, info, overflow_checks) ==
    IF ~(info.best_dl <= submission_data.deadline) THEN "false"
    ELSE IF sub_one_panics(info.block, overflow_checks) THEN "panic"
    ELSE IF sub_one_panics(submission_data.height, overflow_checks) THEN "panic"
    ELSE IF sub_one(info.block) \div Window = sub_one(submission_data.height) \div Window
         THEN "true" ELSE "false"

\* what the match on xt_result returns
xt_response(xt) ==
    IF xt = "verify_true" THEN "accepted"
    ELSE IF xt = "verify_false" THEN "rejected"
    ELSE "error"

(* ------------------------------- state --------------------------------- *)
VARIABLES
    chan,              \* mpsc::unbounded(): the candidates sent and not yet received
    senders,           \* TRUE while the RequestHandler (tx_submit_data) is alive
    held,              \* PrioRetry: the held candidate, or None
    nextEligibleTime,  \* PrioRetry: end of the running backoff, or None
    pc,                \* the dispatcher: "poll", "yielded", "call", "done";
                       \* "dropped" once the runtime has dropped the task
    cur,               \* submission_params, the item the stream yielded
    outstanding,       \* number of submit_nonce calls that have not returned
    now,               \* the clock, in seconds
    nextId,            \* serial number of the next enqueue
    live,              \* candidates offered to the queue and not yet terminal
    lastOutcome,       \* what the last submit_nonce call came to
    failedAt,          \* when the held candidate's last submit failed, or None
    retired,           \* ids of the candidates superseded after a failed submit
    replacedIds,       \* ids of all candidates superseded while held
    receiver,          \* TRUE while rx (inside the spawned stream) is alive
    sendErr,           \* the last unbounded_send answered Err, which was logged
    arrivedInFlight,   \* ids of the candidates that were sent while the last
                       \* submit was in flight (in the channel when it returned)
    ca, cb,            \* two candidates handed to the ordering
    cres, crev,        \* cmp(ca, cb) and cmp(cb, ca), or "none"
    cheld,             \* the slot after offer(ca) while cb was held
    cc, cbc, cac,      \* a third candidate, cmp(cb, cc) and cmp(ca, cc)
    sdata,             \* submit_nonce on its own: submission_data
    sinfo,             \* what get_last_mining_info answers, or None
    sxt,               \* what the extrinsic comes to if it is sent
    overflowChecks,    \* TRUE for a build with overflow checks
    spc,               \* "start", "xt", "returned" or "panicked"
    sres,              \* the response, or "none"
    ssent,             \* TRUE once the extrinsic has been submitted
    swrapped,          \* TRUE once a subtraction of the check has wrapped
    mheight,           \* get_mining_info on its own: the current chain height
    mres,              \* "none", "ok", "panic", or "wrapped"
    mduration          \* duration_from_last_mining when mres is "ok"

queueVars == <<held, nextEligibleTime>>

ghostVars == <<live, lastOutcome, failedAt, retired, replacedIds>>

svcVars == <<receiver, sendErr, arrivedInFlight>>

subVars == <<sdata, sinfo, sxt, overflowChecks, spc, sres, ssent,
             swrapped, mheight, mres, mduration>>

cmpVars == <<ca, cb, cres, crev, cheld, cc, cbc, cac, subVars>>

vars == <<chan, senders, held, nextEligibleTime, pc, cur, outstanding, now,
          nextId, live, lastOutcome, failedAt, retired, replacedIds,
          receiver, sendErr, arrivedInFlight,
          ca, cb, cres, crev, cheld, cc, cbc, cac,
          sdata, sinfo, sxt, overflowChecks, spc, sres, ssent,
          swrapped, mheight, mres, mduration>>

TypeOK ==
    /\ chan \in Seq(Instances)
    /\ senders \in BOOLEAN
    /\ held \in Instances \cup {None}
    /\ nextEligibleTime \in (0..(MaxTime + FixedDelay)) \cup {NoTime}
    /\ pc \in {"poll", "yielded", "call", "done", "dropped"}
    /\ cur \in Instances \cup {None}
    /\ outstanding \in 0..2
    /\ now \in 0..MaxTime
    /\ nextId \in 1..(MaxOffers + 1)
    /\ live \subseteq Instances
    /\ lastOutcome \in {"none", "accepted", "rejected", "error"}
    /\ failedAt \in (0..MaxTime) \cup {NoTime}
    /\ retired \subseteq 1..(MaxOffers + 1)
    /\ replacedIds \subseteq 1..(MaxOffers + 1)
    /\ receiver \in BOOLEAN
    /\ sendErr \in BOOLEAN
    /\ arrivedInFlight \subseteq 1..(MaxOffers + 1)
    /\ sdata \in SubmitInputs \cup {None}
    /\ sinfo \in LastMiningInfos \cup {None}
    /\ sxt \in XtResults \cup {"none"}
    /\ overflowChecks \in BOOLEAN
    /\ spc \in {"none", "start", "xt", "returned", "panicked"}
    /\ sres \in {"none", "accepted", "rejected", "error", "panic"}
    /\ ssent \in BOOLEAN
    /\ swrapped \in BOOLEAN
    /\ mheight \in SubmitHeights
    /\ mres \in {"none", "ok", "panic", "wrapped"}
    /\ mduration \in 0..(MsPerBlock * MaxHeight)

(* ----------------- PrioRetry (modelled from the spec) ------------------ *)
\* offer: the candidate replaces the held one if nothing is held or if it
\* compares higher than the held one
Supersedes(candidate, h) ==
    h = None \/ cmp(candidate.sp, h.sp) = "Greater"

offer(h, candidate) ==
    IF Supersedes(candidate, h) THEN candidate ELSE h

\* takeReady: a candidate is held and its backoff, if any, has run out
Eligible ==
    held # None /\ (nextEligibleTime = NoTime \/ now >= nextEligibleTime)

(* ------------------------------ actions -------------------------------- *)
Init ==
    /\ chan = <<>>
    /\ senders = TRUE
    /\ held = None
    /\ nextEligibleTime = NoTime
    /\ pc = "poll"
    /\ cur = None
    /\ outstanding = 0
    /\ now = 0
    /\ nextId = 1
    /\ live = {}
    /\ lastOutcome = "none"
    /\ failedAt = NoTime
    /\ retired = {}
    /\ replacedIds = {}
    /\ receiver = TRUE
    /\ sendErr = FALSE
    /\ arrivedInFlight = {}
    /\ ca = None /\ cb = None /\ cres = "none" /\ crev = "none" /\ cheld = None
    /\ cc = None /\ cbc = "none" /\ cac = "none"
    /\ sdata = None /\ sinfo = None /\ sxt = "none" /\ overflowChecks = FALSE
    /\ spc = "none" /\ sres = "none" /\ ssent = FALSE
    /\ swrapped = FALSE /\ mheight = 0 /\ mres = "none" /\ mduration = 0

\* (variant) the producer writes the shared slot itself instead of sending
EnqueueOffersDirectly(sp) ==
    /\ senders
    /\ nextId <= MaxOffers
    /\ LET candidate == [sp |-> sp, id |-> nextId] IN
       /\ held' = offer(held, candidate)
       /\ nextEligibleTime' =
              IF Supersedes(candidate, held) THEN NoTime ELSE nextEligibleTime
       /\ failedAt' = IF Supersedes(candidate, held) THEN NoTime ELSE failedAt
       /\ retired' =
              IF Supersedes(candidate, held) /\ held # None /\ failedAt # NoTime
              THEN retired \cup {held.id} ELSE retired
       /\ replacedIds' =
              IF Supersedes(candidate, held) /\ held # None
              THEN replacedIds \cup {held.id} ELSE replacedIds
       /\ live' = live \cup {candidate}
    /\ nextId' = nextId + 1
    /\ UNCHANGED <<chan, senders, pc, cur, outstanding, now, lastOutcome>>
    /\ UNCHANGED svcVars
    /\ UNCHANGED cmpVars

\* (variant) the producer waits until the dispatcher is between submissions
EnqueueWaitsForDispatcher(sp) ==
    /\ senders
    /\ nextId <= MaxOffers
    /\ pc \in {"poll", "done", "dropped"}
    /\ chan' = IF receiver THEN Append(chan, [sp |-> sp, id |-> nextId]) ELSE chan
    /\ sendErr' = ~receiver
    /\ nextId' = nextId + 1
    /\ UNCHANGED <<senders, held, nextEligibleTime, pc, cur, outstanding, now>>
    /\ UNCHANGED <<receiver, arrivedInFlight>>
    /\ UNCHANGED ghostVars
    /\ UNCHANGED cmpVars

\* RequestHandler::submit_nonce: unbounded_send of the parameters; it neither
\* waits nor looks at the queue. With the receiver gone the send answers Err:
\* the parameters are dropped and the error is logged.
Enqueue(sp) ==
    /\ senders
    /\ nextId <= MaxOffers
    /\ chan' = IF receiver THEN Append(chan, [sp |-> sp, id |-> nextId]) ELSE chan
    /\ sendErr' = ~receiver
    /\ nextId' = nextId + 1
    /\ UNCHANGED <<senders, held, nextEligibleTime, pc, cur, outstanding, now>>
    /\ UNCHANGED <<receiver, arrivedInFlight>>
    /\ UNCHANGED ghostVars
    /\ UNCHANGED cmpVars

\* the RequestHandler and its clones are dropped: the channel closes
DropHandler ==
    /\ senders
    /\ senders' = FALSE
    /\ UNCHANGED <<chan, held, nextEligibleTime, pc, cur, outstanding, now, nextId>>
    /\ UNCHANGED ghostVars
    /\ UNCHANGED cmpVars
    /\ UNCHANGED svcVars

\* (variant) the stream below and_then is polled whatever and_then is doing
AndThenAlwaysPolls == pc \in {"poll", "yielded", "call"}

\* and_then polls the stream below it only while it holds no future of its own
AndThenIdle == pc = "poll"

\* PrioRetry receives one candidate from rx and offers it to the slot
Offer ==
    /\ AndThenIdle
    /\ chan # <<>>
    /\ LET candidate == Head(chan) IN
       /\ held' = offer(held, candidate)
       /\ nextEligibleTime' =
              IF Supersedes(candidate, held) THEN NoTime ELSE nextEligibleTime
       /\ failedAt' = IF Supersedes(candidate, held) THEN NoTime ELSE failedAt
       /\ retired' =
              IF Supersedes(candidate, held) /\ held # None /\ failedAt # NoTime
              THEN retired \cup {held.id} ELSE retired
       /\ replacedIds' =
              IF Supersedes(candidate, held) /\ held # None
              THEN replacedIds \cup {held.id} ELSE replacedIds
       /\ live' = live \cup {candidate}
    /\ chan' = Tail(chan)
    /\ UNCHANGED <<senders, pc, cur, outstanding, now, nextId, lastOutcome>>
    /\ UNCHANGED cmpVars
    /\ UNCHANGED svcVars

\* PrioRetry yields the held candidate to and_then (takeReady); everything
\* received so far has been offered
TakeReady ==
    /\ AndThenIdle
    /\ chan = <<>>
    /\ Eligible
    /\ cur' = held
    /\ pc' = "yielded"
    /\ UNCHANGED <<chan, senders, held, nextEligibleTime, outstanding, now, nextId>>
    /\ UNCHANGED ghostVars
    /\ UNCHANGED cmpVars
    /\ UNCHANGED svcVars

\* (variant) the closure spawns the call and returns at once
SubmitCallSpawns ==
    /\ pc = "yielded"
    /\ outstanding < 2
    /\ outstanding' = outstanding + 1
    /\ pc' = "poll"
    /\ UNCHANGED <<chan, senders, held, nextEligibleTime, cur, now, nextId>>
    /\ UNCHANGED ghostVars
    /\ UNCHANGED cmpVars
    /\ UNCHANGED svcVars

\* the closure of and_then: client.clone().submit_nonce(&submission_params)
SubmitCall ==
    /\ pc = "yielded"
    /\ outstanding' = outstanding + 1
    /\ pc' = "call"
    /\ UNCHANGED <<chan, senders, held, nextEligibleTime, cur, now, nextId>>
    /\ UNCHANGED ghostVars
    /\ UNCHANGED cmpVars
    /\ UNCHANGED svcVars

\* what the closure of then does with the result of submit_nonce
HandleResult(res) ==
    /\ lastOutcome' = res
    /\ live' = IF res \in {"accepted", "rejected"} THEN live \ {cur} ELSE live
    /\ failedAt' = IF held = cur
                   THEN (IF res = "error" THEN now ELSE NoTime)
                   ELSE failedAt
    /\ UNCHANGED <<held, nextEligibleTime>>

\* (variant) an error of submit_nonce passes through and_then and ends for_each
SubmitReturnErrEnds ==
    /\ pc = "call"
    /\ \E res \in Responses(cur.sp) :
           /\ HandleResult(res)
           /\ pc' = IF res = "error" THEN "done" ELSE "poll"
    /\ outstanding' = outstanding - 1
    /\ arrivedInFlight' = {chan[i].id : i \in 1..Len(chan)}
    /\ cur' = None
    /\ UNCHANGED <<chan, senders, now, nextId, retired, replacedIds>>
    /\ UNCHANGED <<receiver, sendErr>>
    /\ UNCHANGED cmpVars

\* (variant) a terminal result empties the queue and what waits before it
SubmitReturnDrains ==
    /\ pc = "call"
    /\ \E res \in Responses(cur.sp) :
           /\ HandleResult(res)
           /\ chan' = IF res = "error" THEN chan ELSE <<>>
    /\ outstanding' = outstanding - 1
    /\ pc' = "poll"
    /\ arrivedInFlight' = {chan[i].id : i \in 1..Len(chan)}
    /\ cur' = None
    /\ UNCHANGED <<senders, now, nextId, retired, replacedIds>>
    /\ UNCHANGED <<receiver, sendErr>>
    /\ UNCHANGED cmpVars

\* (variant) a failed submission is sent again through tx_submit_data
SubmitReturnResends ==
    /\ pc = "call"
    /\ \E res \in Responses(cur.sp) :
           /\ HandleResult(res)
           /\ chan' = IF res = "error" THEN Append(chan, cur) ELSE chan
    /\ outstanding' = outstanding - 1
    /\ pc' = "poll"
    /\ arrivedInFlight' = {chan[i].id : i \in 1..Len(chan)}
    /\ cur' = None
    /\ UNCHANGED <<senders, now, nextId, retired, replacedIds>>
    /\ UNCHANGED <<receiver, sendErr>>
    /\ UNCHANGED cmpVars

\* submit_nonce returns; then(...) logs the result, gives up
\* submission_params and answers Ok(()), and for_each asks the stream for the
\* next item
SubmitReturn ==
    /\ pc = "call"
    /\ \E res \in Responses(cur.sp) : HandleResult(res)
    /\ outstanding' = outstanding - 1
    /\ pc' = "poll"
    /\ arrivedInFlight' = {chan[i].id : i \in 1..Len(chan)}
    /\ cur' = None
    /\ UNCHANGED <<chan, senders, now, nextId, retired, replacedIds>>
    /\ UNCHANGED <<receiver, sendErr>>
    /\ UNCHANGED cmpVars

\* rx is closed and drained: the stream ends and for_each completes
StreamEnd ==
    /\ pc = "poll"
    /\ ~senders
    /\ chan = <<>>
    /\ pc' = "done"
    /\ receiver' = FALSE
    /\ UNCHANGED <<chan, senders, held, nextEligibleTime, cur, outstanding, now, nextId>>
    /\ UNCHANGED <<sendErr, arrivedInFlight>>
    /\ UNCHANGED ghostVars
    /\ UNCHANGED cmpVars

\* the runtime behind the executor shuts down while the task is suspended:
\* the stream is dropped, and with it rx, what rx buffers, the slot of
\* PrioRetry and every candidate in play
TaskDropped ==
    /\ pc = "poll"
    /\ receiver
    /\ pc' = "dropped"
    /\ receiver' = FALSE
    /\ chan' = <<>>
    /\ held' = None /\ nextEligibleTime' = NoTime /\ cur' = None
    /\ live' = {} /\ lastOutcome' = "none" /\ failedAt' = NoTime
    /\ retired' = {} /\ replacedIds' = {} /\ arrivedInFlight' = {}
    /\ UNCHANGED <<senders, outstanding, now, nextId, sendErr>>
    /\ UNCHANGED cmpVars

\* a second passes
Tick ==
    /\ now < MaxTime
    /\ now' = now + 1
    /\ UNCHANGED <<chan, senders, held, nextEligibleTime, pc, cur, outstanding, nextId>>
    /\ UNCHANGED ghostVars
    /\ UNCHANGED cmpVars
    /\ UNCHANGED svcVars

Next ==
    \/ \E sp \in Produced : Enqueue(sp)
    \/ DropHandler
    \/ Offer
    \/ TakeReady
    \/ SubmitCall
    \/ SubmitReturn
    \/ StreamEnd
    \/ TaskDropped
    \/ Tick

Spec == Init /\ [][Next]_vars

(* ------------- the ordering and offer, on every pair of inputs --------- *)
mainVars == <<chan, senders, held, nextEligibleTime, pc, cur, outstanding, now,
              nextId, live, lastOutcome, failedAt, retired, replacedIds,
              receiver, sendErr, arrivedInFlight>>

CmpInit ==
    /\ chan = <<>>
    /\ senders = TRUE
    /\ held = None
    /\ nextEligibleTime = NoTime
    /\ pc = "poll"
    /\ cur = None
    /\ outstanding = 0
    /\ now = 0
    /\ nextId = 1
    /\ live = {}
    /\ lastOutcome = "none"
    /\ failedAt = NoTime
    /\ retired = {}
    /\ replacedIds = {}
    /\ receiver = TRUE
    /\ sendErr = FALSE
    /\ arrivedInFlight = {}
    /\ ca \in SubmissionParameters
    /\ cb \in SubmissionParameters
    /\ cc \in SubmissionParameters
    /\ cres = "none" /\ crev = "none" /\ cheld = None
    /\ cbc = "none" /\ cac = "none"
    /\ sdata = None /\ sinfo = None /\ sxt = "none" /\ overflowChecks = FALSE
    /\ spc = "none" /\ sres = "none" /\ ssent = FALSE
    /\ swrapped = FALSE /\ mheight = 0 /\ mres = "none" /\ mduration = 0

\* cb is held (the first offer, into the empty slot); ca is offered second
Compare ==
    /\ cres = "none"
    /\ cres' = cmp(ca, cb)
    /\ crev' = cmp(cb, ca)
    /\ cheld' = offer(offer(None, [sp |-> cb, id |-> 1]), [sp |-> ca, id |-> 2])
    /\ cbc' = cmp(cb, cc)
    /\ cac' = cmp(ca, cc)
    /\ UNCHANGED <<ca, cb, cc>>
    /\ UNCHANGED mainVars
    /\ UNCHANGED subVars

Redraw ==
    /\ cres # "none"
    /\ ca' = cb
    /\ cb' = cc
    /\ cc' \in SubmissionParameters
    /\ cres' = "none" /\ crev' = "none" /\ cheld' = None
    /\ cbc' = "none" /\ cac' = "none"
    /\ UNCHANGED mainVars
    /\ UNCHANGED subVars

CmpNext ==
    \/ Compare
    \/ Redraw

SpecCmp == CmpInit /\ [][CmpNext]_vars

(* --------- Client::submit_nonce on its own, over every input ---------- *)
SubmitInit ==
    /\ chan = <<>>
    /\ senders = TRUE
    /\ held = None
    /\ nextEligibleTime = NoTime
    /\ pc = "poll"
    /\ cur = None
    /\ outstanding = 0
    /\ now = 0
    /\ nextId = 1
    /\ live = {}
    /\ lastOutcome = "none"
    /\ failedAt = NoTime
    /\ retired = {}
    /\ replacedIds = {}
    /\ receiver = TRUE
    /\ sendErr = FALSE
    /\ arrivedInFlight = {}
    /\ ca = None /\ cb = None /\ cres = "none" /\ crev = "none" /\ cheld = None
    /\ cc = None /\ cbc = "none" /\ cac = "none"
    /\ sdata \in SubmitInputs
    /\ sinfo \in LastMiningInfos \cup {None}
    /\ sxt \in XtResults
    /\ overflowChecks \in BOOLEAN
    /\ spc = "start" /\ sres = "none" /\ ssent = FALSE
    /\ swrapped = FALSE
    /\ mheight \in {h \in SubmitHeights : sinfo = None \/ sinfo.block <= h + 1}
    /\ mres = "none" /\ mduration = 0

\* the first block_on: the check against the chain's best deadline, and the
\* early return with verify_result false
CheckBestDeadline ==
    /\ spc = "start"
    /\ LET check == IF sinfo = None THEN "false"
                    ELSE better_on_chain(sdata, sinfo, overflowChecks) IN
       /\ spc' = IF check = "panic" THEN "panicked"
                 ELSE IF check = "true" THEN "returned" ELSE "xt"
       /\ sres' = IF check = "panic" THEN "panic"
                  ELSE IF check = "true" THEN "rejected" ELSE "none"
       /\ swrapped' = (check # "panic" /\ sinfo # None
                          /\ sinfo.best_dl <= sdata.deadline
                          /\ (sinfo.block = 0 \/ sdata.height = 0))
    /\ UNCHANGED <<sdata, sinfo, sxt, overflowChecks, ssent>>
    /\ UNCHANGED <<mheight, mres, mduration>>
    /\ UNCHANGED <<ca, cb, cres, crev, cheld, cc, cbc, cac>>
    /\ UNCHANGED mainVars

\* the second block_on: the extrinsic is submitted and watched, and the
\* response is made of what it comes to
SubmitExtrinsic ==
    /\ spc = "xt"
    /\ ssent' = TRUE
    /\ sres' = xt_response(sxt)
    /\ spc' = "returned"
    /\ UNCHANGED <<sdata, sinfo, sxt, overflowChecks>>
    /\ UNCHANGED <<swrapped, mheight, mres, mduration>>
    /\ UNCHANGED <<ca, cb, cres, crev, cheld, cc, cbc, cac>>
    /\ UNCHANGED mainVars

\* Client::get_mining_info: duration_from_last_mining = (height - block) * 3000
\* on u64, block being 0 without last mining info. The height is read before
\* the last mining info, which may by then be of a newer block. With overflow
\* checks height - block panics below 0; without them it wraps, and so does
\* the product.
GetMiningInfo ==
    /\ mres = "none"
    /\ LET block == IF sinfo = None THEN 0 ELSE sinfo.block IN
       /\ mres' = IF mheight >= block THEN "ok"
                  ELSE IF overflowChecks THEN "panic" ELSE "wrapped"
       /\ mduration' = IF mheight >= block THEN (mheight - block) * MsPerBlock
                       ELSE 0
    /\ UNCHANGED <<sdata, sinfo, sxt, overflowChecks, spc, sres, ssent>>
    /\ UNCHANGED <<swrapped, mheight>>
    /\ UNCHANGED <<ca, cb, cres, crev, cheld, cc, cbc, cac>>
    /\ UNCHANGED mainVars

SubmitNext ==
    \/ CheckBestDeadline
    \/ SubmitExtrinsic
    \/ GetMiningInfo

SpecSubmit == SubmitInit /\ [][SubmitNext]_vars

\* The dispatcher task is polled until it completes, and a poll that finds rx
\* closed and drained ends the stream.
Dispatcher == Offer \/ TakeReady \/ SubmitCall \/ SubmitReturn

SpecFair == Spec /\ WF_vars(Dispatcher) /\ SF_vars(StreamEnd)

(* ------------------------------ properties ----------------------------- *)
IsTake == pc = "poll" /\ pc' = "yielded"

IsCall == pc = "yielded" /\ pc' = "call"

IsReturn == pc = "call" /\ pc' = "poll"

SameForkHeight(x, y) == x.sp.block = y.sp.block /\ x.sp.gen_sig = y.sp.gen_sig

\* C1: the queue holds at most one candidate, and a held candidate is one of
\* the candidates offered and not yet terminal, ranked by cmp above every
\* such candidate of its fork and height.
C1_HeldIsBestLive ==
    held # None =>
        /\ held \in live
        /\ \A x \in live : SameForkHeight(x, held) => cmp(held.sp, x.sp) = "Greater"

\* C2: once a candidate whose submit failed has been superseded by a
\* higher-ranked offer, takeReady returns the held (superseding) candidate and
\* the superseded one is never passed to submit again.
C2_SupersededNeverResubmitted ==
    [][/\ IsTake => (cur' = held /\ cur'.id \notin retired)
       /\ IsCall => cur.id \notin retired]_vars

\* a candidate was superseded after its submit failed, and the candidate now
\* held is being submitted
C2_Witness ==
    retired # {} /\ pc = "call" /\ cur = held /\ lastOutcome = "error"

\* C3: when submit fails, the dispatcher keeps running and puts the held
\* candidate into backoff for the fixed delay (reportFailure), to retry it.
C3_FailureSchedulesRetry ==
    [][(IsReturn /\ lastOutcome' = "error") =>
          (held' = cur /\ nextEligibleTime' = now + FixedDelay)]_vars

\* C4: after the submit of the held candidate failed, takeReady does not
\* return it before the fixed delay has elapsed.
C4_NoRetryBeforeDelay ==
    [][(IsTake /\ failedAt # NoTime) => now >= failedAt + FixedDelay]_vars

\* C5: when submit returns accepted == false the candidate is terminal: the
\* queue is empty afterwards (reportTerminal).
C5_RejectionEmptiesQueue ==
    [][(IsReturn /\ lastOutcome' = "rejected") => held' = None]_vars

\* C6: at most one submit call is outstanding, whatever the producers send
\* meanwhile.
C6_OneSubmitOutstanding == outstanding <= 1

\* a submit is outstanding while a producer has sent another candidate
C6_Witness == outstanding = 1 /\ pc = "call" /\ chan # <<>>

\* C7: the candidate passed to submit is the one held at the moment submit
\* is called, never one that has been superseded.
C7_SubmitsHeldCandidate ==
    [][IsCall => (cur = held /\ cur.id \notin replacedIds)]_vars

\* a candidate was superseded some time after it was first yielded, and the
\* superseding one is being submitted
C7_Witness ==
    pc = "call" /\ replacedIds # {} /\ cur = held /\ now > 0

\* C8: a candidate with the larger block compares Greater, and the other way
\* round Less, whatever the deadlines and generation signatures.
C8_HigherBlockWins ==
    (cres # "none" /\ ca.block > cb.block) => (cres = "Greater" /\ crev = "Less")

\* the higher block wins with the worse deadline and another signature
C8_Witness ==
    /\ cres = "Greater" /\ crev = "Less"
    /\ ca.block > cb.block /\ ca.deadline > cb.deadline /\ ca.gen_sig # cb.gen_sig

\* C9: with equal block and equal generation signature, a compares Greater
\* when a.deadline <= b.deadline and Less when a.deadline > b.deadline.
C9_LowerOrEqualDeadlineWins ==
    (cres # "none" /\ ca.block = cb.block /\ ca.gen_sig = cb.gen_sig) =>
        /\ ca.deadline <= cb.deadline => cres = "Greater"
        /\ ca.deadline > cb.deadline => cres = "Less"

\* equal deadlines on the same fork and height: Greater in both directions
C9_Witness ==
    /\ cres = "Greater" /\ crev = "Greater"
    /\ ca.block = cb.block /\ ca.gen_sig = cb.gen_sig /\ ca.deadline = cb.deadline

\* C10: with equal block and differing generation signature, the candidate
\* offered second compares Less than the held one whatever its deadline, and
\* offering it leaves the held candidate in place.
C10_ForeignForkNeverReplaces ==
    (cres # "none" /\ ca.block = cb.block /\ ca.gen_sig # cb.gen_sig) =>
        (cres = "Less" /\ cheld = [sp |-> cb, id |-> 1])

\* the second candidate has the better deadline and is still discarded
C10_Witness ==
    /\ cres = "Less" /\ cheld = [sp |-> cb, id |-> 1]
    /\ ca.block = cb.block /\ ca.gen_sig # cb.gen_sig /\ ca.deadline < cb.deadline

\* C11: cmp never answers Equal: for every pair of candidates, structurally
\* identical ones included, the result is Greater or Less.
C11_NeverEqual ==
    cres # "none" => (cres \in {"Greater", "Less"} /\ crev \in {"Greater", "Less"})

\* a candidate compared with a structurally identical one
C11_Witness == ca = cb /\ cres # "none" /\ cres # "Equal"

SameFork(a, b) == a.block = b.block /\ a.gen_sig = b.gen_sig

\* C12 as stated: the ranking is antisymmetric (Greater one way is Less the
\* other way) and transitive.
C12_TotalOrder ==
    cres # "none" =>
        /\ cres = "Greater" => crev = "Less"
        /\ (cres = "Greater" /\ cbc = "Greater") => cac = "Greater"

\* C12 as amended: the ranking is transitive, and antisymmetric on every pair
\* but two kinds: candidates of the same block, generation signature and
\* deadline compare Greater both ways, and candidates of the same block and
\* different generation signatures compare Less both ways.
C12_TransitiveWithTies ==
    cres # "none" =>
        /\ (cres = "Greater" /\ cbc = "Greater") => cac = "Greater"
        /\ (SameFork(ca, cb) /\ ca.deadline = cb.deadline) =>
               (cres = "Greater" /\ crev = "Greater")
        /\ (ca.block = cb.block /\ ca.gen_sig # cb.gen_sig) =>
               (cres = "Less" /\ crev = "Less")
        /\ (ca.block # cb.block \/ (SameFork(ca, cb) /\ ca.deadline # cb.deadline)) =>
               ((cres = "Greater") <=> (crev = "Less"))

\* a chain of three different candidates, the first step by the block and the
\* second by the deadline
C12_Witness ==
    /\ cres = "Greater" /\ cbc = "Greater" /\ cac = "Greater"
    /\ ca.block > cb.block /\ SameFork(cb, cc) /\ cb.deadline < cc.deadline

IsEnqueue == nextId' = nextId + 1

\* C13: enqueue never blocks its caller: while a handler exists it can be
\* called in every state of the dispatcher, a submit outstanding included, and
\* the call changes nothing of the dispatcher; with the channel closed the
\* candidate is dropped (neither the channel nor the slot receives it), the
\* failure is logged and the call still returns.
C13_EnqueueNeverBlocks ==
    /\ []((senders /\ nextId <= MaxOffers) => ENABLED (\E sp \in Produced : Enqueue(sp)))
    /\ [][IsEnqueue =>
            /\ UNCHANGED <<pc, cur, held, nextEligibleTime, outstanding, live>>
            /\ receiver => (Len(chan') = Len(chan) + 1 /\ ~sendErr')
            /\ ~receiver => (chan' = chan /\ sendErr')]_vars

\* a candidate was enqueued after the receiving end had gone, and the caller
\* is still there to enqueue again
C13_WitnessClosed == sendErr /\ ~receiver /\ senders /\ chan = <<>> /\ held = None

\* an enqueue while a submit is outstanding
C13_Witness == pc = "call" /\ chan # <<>> /\ chan[Len(chan)].id = nextId - 1

IsOffer == pc = "poll" /\ pc' = "poll" /\ chan # <<>> /\ chan' = Tail(chan)

\* C14: once the held candidate has become terminal (accepted or rejected)
\* the queue counts as holding nothing: the candidate offered next becomes
\* the held one whatever its block and generation signature.
C14_OfferAfterTerminalIsHeld ==
    [][(IsOffer /\ (held = None \/ held \notin live)) => held' = Head(chan)]_vars

Terminated == pc = "done"

RanksHigher(a, b) ==
    \/ a.block > b.block
    \/ (SameFork(a, b) /\ a.deadline <= b.deadline)

\* C16: the offer of a candidate that does not rank higher than the held one
\* changes nothing: the held candidate, nextEligibleTime and the time of the
\* last failure stay as they are, the dispatcher is not disturbed, and nothing
\* is logged or signalled to the producers.
C16_DiscardChangesNothing ==
    [][(IsOffer /\ held # None /\ ~RanksHigher(Head(chan).sp, held.sp)) =>
           UNCHANGED <<held, nextEligibleTime, failedAt, pc, cur, outstanding,
                       sendErr, senders, nextId>>]_vars

\* a candidate offered after the held one was discarded
C16_Witness ==
    held # None /\ \E x \in live : x.id > held.id /\ ~RanksHigher(x.sp, held.sp)

\* C17: the offer of a candidate that replaces the held one (nothing held, or
\* the candidate ranks higher) makes it the held one and clears
\* nextEligibleTime, so that it is eligible at once; a later candidate of the
\* same block, generation signature and deadline as the held one replaces it.
C17_ReplacementIsEligible ==
    [][/\ (IsOffer /\ (held = None \/ RanksHigher(Head(chan).sp, held.sp))) =>
              (held' = Head(chan) /\ nextEligibleTime' = NoTime /\ Eligible')
       /\ (IsOffer /\ held # None /\ SameFork(Head(chan).sp, held.sp)
                   /\ Head(chan).sp.deadline = held.sp.deadline) =>
              (held' = Head(chan) /\ held'.id > held.id /\ Eligible')]_vars

\* a candidate whose submit had failed was replaced, within the fixed delay,
\* by a later one of the same block, generation signature and deadline
C17_Witness ==
    /\ held # None /\ pc = "poll" /\ Eligible /\ now < FixedDelay
    /\ \E x \in live :
           /\ x.id \in retired /\ x.id < held.id
           /\ SameFork(x.sp, held.sp) /\ x.sp.deadline = held.sp.deadline

Terminal == {"accepted", "rejected"}

\* C18: a candidate that arrives while a submit is in flight is not lost to
\* the terminal outcome of that submit: the return leaves the waiting
\* candidates and the slot alone, the waiting candidate that ranks higher
\* becomes the held one when it is offered, and a held candidate that arrived
\* during the submit is passed to submit unless a candidate that arrived
\* after the submit replaces it or the task ends first.
C18_TerminalKeepsSuperseder ==
    /\ [][(IsReturn /\ lastOutcome' \in Terminal) =>
              (chan' = chan /\ held' = held)]_vars
    /\ [][(IsOffer /\ Head(chan).id \in arrivedInFlight /\ lastOutcome \in Terminal
                   /\ held # None /\ RanksHigher(Head(chan).sp, held.sp)) =>
              (held' = Head(chan) /\ Eligible')]_vars
    /\ (held # None /\ held.id \in arrivedInFlight /\ lastOutcome \in Terminal)
         ~> \/ (pc = "call" /\ cur = held /\ cur.id \in arrivedInFlight)
            \/ (held # None /\ held.id \notin arrivedInFlight)
            \/ pc \in {"done", "dropped"}

\* the candidate that arrived during a submit which ended accepted or
\* rejected is the one now passed to submit
C18_Witness ==
    /\ pc = "call" /\ cur = held /\ cur.id \in arrivedInFlight
    /\ lastOutcome \in Terminal /\ held \in live

\* C19: a candidate that arrives while a submit is in flight is not delayed
\* by the failure of that submit: the failing return arms no backoff and
\* leaves the waiting candidates alone; the waiting candidate that ranks
\* higher replaces the failed one when it is offered and is eligible at once;
\* takeReady can return it without any time passing; and the failed,
\* replaced candidate is not passed to submit again.
C19_FailureDoesNotDelaySuperseder ==
    /\ [][(IsReturn /\ lastOutcome' = "error") =>
              (chan' = chan /\ nextEligibleTime' = NoTime)]_vars
    /\ [][(IsOffer /\ Head(chan).id \in arrivedInFlight /\ lastOutcome = "error"
                   /\ held # None /\ RanksHigher(Head(chan).sp, held.sp)) =>
              /\ held' = Head(chan) /\ Eligible'
              /\ failedAt # NoTime => held.id \in retired']_vars
    /\ []((pc = "poll" /\ chan = <<>> /\ held # None /\ lastOutcome = "error"
              /\ held.id \in arrivedInFlight) => ENABLED TakeReady)
    /\ [][(IsTake \/ IsCall) => cur'.id \notin retired]_vars

\* the candidate that arrived during a submit which then failed is passed to
\* submit in the very second of the failure, the failed one being replaced
C19_Witness ==
    /\ pc = "call" /\ cur = held /\ cur.id \in arrivedInFlight
    /\ lastOutcome = "error" /\ retired # {} /\ now = 0

\* C20: submit_nonce answers verify_result false without sending the
\* extrinsic exactly when the chain has last mining info with
\* best_dl <= deadline and (info.block - 1) / 3 = (height - 1) / 3; in every
\* other case it sends the extrinsic and answers with its result or an error.
C20_RejectsUnsentIffBetterOnChain ==
    spc \in {"returned", "panicked"} =>
        LET cond == /\ sinfo # None
                    /\ sinfo.best_dl <= sdata.deadline
                    /\ (sinfo.block - 1) \div Window = (sdata.height - 1) \div Window
        IN  IF cond THEN sres = "rejected" /\ ~ssent
            ELSE ssent /\ sres = xt_response(sxt)

\* C21: the u64 arithmetic of the collaborator is well defined on every
\* input: the subtractions of the check in submit_nonce neither panic nor
\* wrap, block and height 0 included, and neither does (height - block) * 3000
\* in get_mining_info.
C21_ArithmeticWellDefined ==
    /\ sres # "panic" /\ ~swrapped
    /\ mres \notin {"panic", "wrapped"}
====
